---- MODULE Spec2Model ----
(***************************************************************************)
(* Model of the presence-and-fanout layer of the topology backend:         *)
(* ConnectionManager (app/utils/websocket_manager.py).                     *)
(*                                                                         *)
(* The three dictionaries of a ConnectionManager are the state.  Every     *)
(* method is a pure operator from a manager state (a record) and the       *)
(* call's arguments to the manager state after the call; the actions of    *)
(* the state machine apply these operators to the current state.  A        *)
(* channel write (websocket.send_json) either succeeds or raises; which    *)
(* recipients' writes raise is an input of the call.                       *)
(***************************************************************************)
EXTENDS Integers, FiniteSets, Sequences, TLC

\* ---- bounds of the model ------------------------------------------------
NumUsers == 2
NumRooms == 1
NumChannels == 2
\* inbound messages the connection handlers receive in a behaviour
MaxMessages == 3
\* presence calls that are in flight at the same time
MaxCalls == 2
\* rows the routes create in a table of the store
MaxRecords == 2
\* HTTP requests that are served at the same time
MaxRequests == 2
\* rows the friendship routes create
MaxFriendships == 3
\* entries pushed on the random-call queue in a behaviour
MaxEntries == 2

Users == 1..NumUsers
Rooms == 1..NumRooms
Channels == 1..NumChannels

\* Python's None where a user id is expected (exclude_user = None)
NoUser == 0
\* Python's None as a return value, and the two booleans, as the caller
\* sees them
PyNone == "None"
PyTrue == "True"
PyFalse == "False"

VARIABLES active_connections, rooms, user_rooms, last

\* the presence cache (Redis) and the RedisManager objects in front of it:
\*   redis         the keys of the cache: the online_users set and the
\*                 user_status:{user_id} records
\*   redis_client  for each RedisManager object, whether its _redis_client
\*                 is a client (TRUE) or None (FALSE)
\*   marks         for each user, the last set_user_online/set_user_offline
\*                 call made for it and whether STATUS_EXPIRE seconds have
\*                 passed since
\*   plast         the last RedisManager call and its result
VARIABLES redis, redis_client, marks, plast

\* the gateway (websocket_endpoints.py): for each WebSocket a client opened,
\* where its websocket_endpoint coroutine stands, its user_id local, the
\* exception it ended with and which cleanup calls of its finally block were
\* executed
VARIABLES handler

\* inbound messages given to ConnectionManager.handle_message:
\*   msg     the type of the last message handled (its sender and room
\*           are in `last`)
\*   typing  the users whose typing:{conversation_id}:{user_id} key is in
\*           the cache
VARIABLES msg, typing

\* one send_to_room or broadcast call executed step by step, a step ending
\* where the coroutine is suspended in `await ... send_json(message)`:
\*   task  the call's arguments, its position, the state of its iterator
\*         and its disconnected_users list
VARIABLES task

\* connection handlers that take one inbound message after the other:
\*   inflight  for each sender, the messages its handler has received and
\*             not finished handling, oldest first
\*   received  how many messages the handlers have received; a message is
\*             numbered by its place in the order of reception
\*   wire      for each channel, the <<sender, number>> of the messages
\*             written to it, in the order of the writes
VARIABLES inflight, received, wire

\* the handlers that own a registered connection:
\*   owner   for each WebSocket, the user whose handler registered it and
\*           has not yet run its cleanup (NoUser: no live handler)
VARIABLES owner

\* the ConnectionManager objects of the process, one per module-level
\* `ConnectionManager()` expression:
\*   instance   the state of each object
\*   notified   the last delivery a module asked of its own object
VARIABLES instance, notified

\* presence calls executed command by command, a step ending where the
\* coroutine is suspended in `await asyncio.to_thread(...)`:
\*   calls   for each coroutine slot, the call it is in and the command it
\*           issues next
VARIABLES calls

\* the video-call routes (routes/video_call.py) and the store behind them:
\*   video_calls   the rows of the "video_calls" table, a row's position
\*                 standing for its call_id
\*   reqs          for each request being served, the route, its
\*                 current_user, its call_id and where its coroutine stands
\*   moved         the last write of a status: who wrote it, through which
\*                 route, and what the row said before
VARIABLES video_calls, reqs, moved

\* the friendship routes (routes/friends.py):
\*   friends   the rows of the "friends" table, a row's position standing
\*             for its friendship_id
\*   flast     the last request served and the HTTP status it was answered
\*             with
VARIABLES friends, flast

\* the random-call queue (the Redis list random_call_queue) and the
\* find_random_call_match calls in flight:
\*   queue     the list, head first; an entry is the JSON text of one
\*             add_to_random_call_queue call, told apart by its timestamp
\*   finders   for each coroutine slot, the call's arguments and locals
\*   handed    for each entry, how many find_random_call_match calls have
\*             returned it
\*   matched   the last match returned
\*   pushed    how many entries have been pushed so far
VARIABLES queue, finders, handed, matched, pushed

mgrVars == <<active_connections, rooms, user_rooms, last>>
presVars == <<redis, redis_client, marks, plast>>
gwVars == <<handler>>
msgVars == <<msg, typing>>
taskVars == <<task>>
ordVars == <<inflight, received, wire>>
ownVars == <<owner>>
regVars == <<instance, notified>>
ccVars == <<calls>>
callVars == <<video_calls, reqs, moved>>
friendVars == <<friends, flast>>
queueVars == <<queue, finders, handed, matched, pushed>>
extraVars == <<ownVars, regVars, ccVars, callVars, friendVars, queueVars>>
baseVars == <<mgrVars, presVars, gwVars, msgVars, taskVars, ordVars>>
\* what the actions of one of the later sections leave alone among the
\* variables of the other later sections
nonOwnVars == <<regVars, ccVars, callVars, friendVars, queueVars>>
nonRegVars == <<ownVars, ccVars, callVars, friendVars, queueVars>>
nonCcVars == <<ownVars, regVars, callVars, friendVars, queueVars>>
nonCallVars == <<ownVars, regVars, ccVars, friendVars, queueVars>>
nonFriendVars == <<ownVars, regVars, ccVars, callVars, queueVars>>
nonQueueVars == <<ownVars, regVars, ccVars, callVars, friendVars>>

vars == <<mgrVars, presVars, gwVars, msgVars, taskVars, ordVars, extraVars>>

\* what an action of the ConnectionManager leaves alone
nonMgrVars == <<presVars, gwVars, msgVars, taskVars, ordVars, extraVars>>
\* what an action of the presence cache leaves alone
nonPresVars == <<mgrVars, gwVars, msgVars, taskVars, ordVars, extraVars>>

\* ---- Python dict primitives ---------------------------------------------
\* active_connections is kept as the set of its (key, value) items, so that
\* "one value per key" is a property of the code's assignments and not of
\* the representation.  d[k] = v replaces every item stored under k.
DictHas(d, k) == \E p \in d : p[1] = k
DictGet(d, k) == (CHOOSE p \in d : p[1] = k)[2]
DictSet(d, k, v) == {p \in d : p[1] # k} \cup {<<k, v>>}
DictDel(d, k) == {p \in d : p[1] # k}
DictKeys(d) == {p[1] : p \in d}

\* rooms and user_rooms are dictionaries of sets: functions whose domain is
\* the set of keys present.
Put(f, k, v) == [x \in (DOMAIN f) \cup {k} |-> IF x = k THEN v ELSE f[x]]
Del(f, k) == [x \in (DOMAIN f) \ {k} |-> f[x]]
EmptyDict == [x \in {} |-> {}]

\* ---- manager state as a value -------------------------------------------
\* raised: an exception (KeyError) escaped the method that produced the state
MkState(ac, rm, ur) ==
    [active_connections |-> ac, rooms |-> rm, user_rooms |-> ur,
     raised |-> FALSE]

Raise(st) == [st EXCEPT !.raised = TRUE]

\* ConnectionManager.__init__
InitState == MkState({}, EmptyDict, EmptyDict)

\* del self.active_connections[user_id]: KeyError when the key is absent
del_active(st, user_id) ==
    IF DictHas(st.active_connections, user_id)
    THEN [st EXCEPT !.active_connections = DictDel(@, user_id)]
    ELSE Raise(st)

\* del self.rooms[room_id]
del_room(st, room_id) ==
    IF room_id \in DOMAIN st.rooms
    THEN [st EXCEPT !.rooms = Del(@, room_id)]
    ELSE Raise(st)

\* del self.user_rooms[user_id]
del_user_rooms(st, user_id) ==
    IF user_id \in DOMAIN st.user_rooms
    THEN [st EXCEPT !.user_rooms = Del(@, user_id)]
    ELSE Raise(st)

\* mutant: the emptied room is left in the index
discard_member_keeps_empty(st, user_id, room_id) ==
    [st EXCEPT !.rooms[room_id] = @ \ {user_id}]

\* self.rooms[room_id].discard(user_id); if not self.rooms[room_id]: del ...
\* (the body shared by disconnect's loop and leave_room)
discard_member(st, user_id, room_id) ==
    LET s1 == [st EXCEPT !.rooms[room_id] = @ \ {user_id}]
    IN  IF s1.rooms[room_id] = {} THEN del_room(s1, room_id) ELSE s1


\* ---- ConnectionManager methods ------------------------------------------
\* connect: await websocket.accept() comes first and is the only step that
\* can raise; when it does nothing has been stored.
\* mutant: the new item is added beside the one already stored
connect_appends(st, websocket, user_id, accept_ok) ==
    IF ~accept_ok THEN Raise(st)
    ELSE LET s1 == [st EXCEPT !.active_connections =
                                   @ \cup {<<user_id, websocket>>}]
         IN  IF user_id \notin DOMAIN s1.user_rooms
             THEN [s1 EXCEPT !.user_rooms = Put(@, user_id, {})]
             ELSE s1

connect(st, websocket, user_id, accept_ok) ==
    IF ~accept_ok THEN Raise(st)
    ELSE LET s1 == [st EXCEPT !.active_connections =
                                   DictSet(@, user_id, websocket)]
         IN  IF user_id \notin DOMAIN s1.user_rooms
             THEN [s1 EXCEPT !.user_rooms = Put(@, user_id, {})]
             ELSE s1

\* for room_id in self.user_rooms[user_id]: ...   (disconnect, lines 37-42)
RECURSIVE leave_all(_, _, _)
leave_all(st, user_id, todo) ==
    IF todo = {} \/ st.raised THEN st
    ELSE LET room_id == CHOOSE r \in todo : TRUE
             s1 == IF room_id \in DOMAIN st.rooms
                   THEN discard_member(st, user_id, room_id)
                   ELSE st
         IN  leave_all(s1, user_id, todo \ {room_id})

\* mutant: the rooms of the user are deleted whole instead of left
disconnect_drops_rooms(st, user_id) ==
    LET s1 == [st EXCEPT !.active_connections = DictDel(@, user_id)]
    IN  IF user_id \in DOMAIN s1.user_rooms
        THEN LET gone == s1.user_rooms[user_id] \cap DOMAIN s1.rooms
             IN  [s1 EXCEPT
                    !.rooms = [r \in (DOMAIN @) \ gone |-> @[r]],
                    !.user_rooms = Del(@, user_id)]
        ELSE s1

\* mutant: the presence test before del self.active_connections[...] is
\* missing
disconnect_unguarded(st, user_id) ==
    LET s1 == del_active(st, user_id)
    IN  IF s1.raised THEN s1
        ELSE IF user_id \in DOMAIN s1.user_rooms
        THEN LET s2 == leave_all(s1, user_id, s1.user_rooms[user_id])
             IN  IF s2.raised THEN s2 ELSE del_user_rooms(s2, user_id)
        ELSE s1

disconnect(st, user_id) ==
    LET s1 == IF DictHas(st.active_connections, user_id)
              THEN del_active(st, user_id)
              ELSE st
    IN  IF s1.raised THEN s1
        ELSE IF user_id \in DOMAIN s1.user_rooms
        THEN LET s2 == leave_all(s1, user_id, s1.user_rooms[user_id])
             IN  IF s2.raised THEN s2 ELSE del_user_rooms(s2, user_id)
        ELSE s1

join_room(st, user_id, room_id) ==
    LET s1 == IF room_id \notin DOMAIN st.rooms
              THEN [st EXCEPT !.rooms = Put(@, room_id, {})]
              ELSE st
        s2 == [s1 EXCEPT !.rooms[room_id] = @ \cup {user_id}]
        s3 == IF user_id \notin DOMAIN s2.user_rooms
              THEN [s2 EXCEPT !.user_rooms = Put(@, user_id, {})]
              ELSE s2
    IN  [s3 EXCEPT !.user_rooms[user_id] = @ \cup {room_id}]

\* mutant: only the user's side of the membership is removed
leave_room_user_side(st, user_id, room_id) ==
    IF user_id \in DOMAIN st.user_rooms
    THEN [st EXCEPT !.user_rooms[user_id] = @ \ {room_id}]
    ELSE st

\* mutant: only the room's side of the membership is removed
leave_room_one_side(st, user_id, room_id) ==
    IF room_id \in DOMAIN st.rooms
    THEN discard_member(st, user_id, room_id)
    ELSE st

leave_room(st, user_id, room_id) ==
    LET s1 == IF room_id \in DOMAIN st.rooms
              THEN discard_member(st, user_id, room_id)
              ELSE st
    IN  IF s1.raised THEN s1
        ELSE IF user_id \in DOMAIN s1.user_rooms
        THEN [s1 EXCEPT !.user_rooms[user_id] = @ \ {room_id}]
        ELSE s1

\* the queries; list(set) has no defined order, so a list is its set of
\* elements
get_room_users(st, room_id) ==
    IF room_id \in DOMAIN st.rooms THEN st.rooms[room_id] ELSE {}

get_user_rooms(st, user_id) ==
    IF user_id \in DOMAIN st.user_rooms THEN st.user_rooms[user_id] ELSE {}

is_user_online(st, user_id) == DictHas(st.active_connections, user_id)

\* ---- delivery -----------------------------------------------------------
\* A delivery returns the manager state after the call together with what
\* happened on the wire:
\*   attempted  the (user, channel) pairs send_json was called for
\*   written    those of them whose write succeeded
\*   failed     the users whose write raised
\*   ret        the value the method returns to its caller
\* broken is the set of users the write to whom raises, if it is attempted
\* during the call.
Outcome(st, attempted, broken, ret) ==
    [st |-> st,
     attempted |-> attempted,
     written |-> {w \in attempted : w[1] \notin broken},
     failed |-> {w[1] : w \in {x \in attempted : x[1] \in broken}},
     ret |-> ret]

\* for user_id in disconnected_users: self.disconnect(user_id)
RECURSIVE disconnect_all(_, _)
disconnect_all(st, todo) ==
    IF todo = {} \/ st.raised THEN st
    ELSE LET user_id == CHOOSE u \in todo : TRUE
         IN  disconnect_all(disconnect(st, user_id), todo \ {user_id})

\* mutant: a failed write is swallowed without cleanup
send_personal_message_no_cleanup(st, user_id, broken) ==
    IF DictHas(st.active_connections, user_id)
    THEN Outcome(st, {<<user_id, DictGet(st.active_connections, user_id)>>},
                 broken, PyNone)
    ELSE Outcome(st, {}, broken, PyNone)

\* mutant: the presence test is missing, an absent target is a KeyError
send_personal_message_unguarded(st, user_id, broken) ==
    IF DictHas(st.active_connections, user_id)
    THEN LET websocket == DictGet(st.active_connections, user_id)
             o == Outcome(st, {<<user_id, websocket>>}, broken, PyNone)
         IN  IF user_id \in broken
             THEN [o EXCEPT !.st = disconnect(st, user_id)]
             ELSE o
    ELSE Outcome(Raise(st), {}, broken, PyNone)

\* no return statement: the method returns None on every path
send_personal_message(st, user_id, broken) ==
    IF DictHas(st.active_connections, user_id)
    THEN LET websocket == DictGet(st.active_connections, user_id)
             o == Outcome(st, {<<user_id, websocket>>}, broken, PyNone)
         IN  IF user_id \in broken
             THEN [o EXCEPT !.st = disconnect(st, user_id)]
             ELSE o
    ELSE Outcome(st, {}, broken, PyNone)

\* mutant: the first failed write ends the loop (no try around the write):
\* nothing after it is written and nobody is cleaned up
broadcast_aborts(st, exclude_user, broken) ==
    LET attempted == {p \in st.active_connections : p[1] # exclude_user}
        o == Outcome(st, attempted, broken, PyNone)
    IN  IF o.failed = {} THEN o
        ELSE [o EXCEPT !.st = Raise(st), !.written = {}]

broadcast(st, exclude_user, broken) ==
    LET attempted == {p \in st.active_connections : p[1] # exclude_user}
        o == Outcome(st, attempted, broken, PyNone)
    IN  [o EXCEPT !.st = disconnect_all(st, o.failed)]

\* mutant: exclude_user is not compared
send_to_room_echo(st, room_id, exclude_user, broken) ==
    IF room_id \notin DOMAIN st.rooms
    THEN Outcome(st, {}, broken, PyNone)
    ELSE LET targets == {u \in st.rooms[room_id] :
                            DictHas(st.active_connections, u)}
             attempted == {<<u, DictGet(st.active_connections, u)>> :
                              u \in targets}
             o == Outcome(st, attempted, broken, PyNone)
         IN  [o EXCEPT !.st = disconnect_all(st, o.failed)]

\* mutant: the users whose write failed are collected but never
\* disconnected
send_to_room_no_cleanup(st, room_id, exclude_user, broken) ==
    IF room_id \notin DOMAIN st.rooms
    THEN Outcome(st, {}, broken, PyNone)
    ELSE LET targets == {u \in st.rooms[room_id] :
                            /\ u # exclude_user
                            /\ DictHas(st.active_connections, u)}
             attempted == {<<u, DictGet(st.active_connections, u)>> :
                              u \in targets}
         IN  Outcome(st, attempted, broken, PyNone)

send_to_room(st, room_id, exclude_user, broken) ==
    IF room_id \notin DOMAIN st.rooms
    THEN Outcome(st, {}, broken, PyNone)
    ELSE LET targets == {u \in st.rooms[room_id] :
                            /\ u # exclude_user
                            /\ DictHas(st.active_connections, u)}
             attempted == {<<u, DictGet(st.active_connections, u)>> :
                              u \in targets}
             o == Outcome(st, attempted, broken, PyNone)
         IN  [o EXCEPT !.st = disconnect_all(st, o.failed)]

\* ---- RedisManager (app/utils/redis_manager.py) --------------------------
STATUS_EXPIRE == 300

\* a key stored without expiry
NoTtl == 0

\* the RedisManager objects of the process: the singleton that
\* RedisManager.initialize() builds and connects at startup and
\* get_instance() returns, and the objects the modules build for themselves
\* with RedisManager()
Singleton == "RedisManager.get_instance()"
Private == "RedisManager()"
Handles == {Singleton, Private}

\* a user_status key that does not exist
NoRecord == [status |-> "none", ttl |-> NoTtl]

\* the empty cache
EmptyRedis ==
    [online_users |-> {}, online_ttl |-> NoTtl,
     status |-> [u \in Users |-> NoRecord]]

\* the Redis commands the manager issues
sadd(rs, member) == [rs EXCEPT !.online_users = @ \cup {member}]
srem(rs, member) == [rs EXCEPT !.online_users = @ \ {member}]
setex(rs, user_id, seconds, value) ==
    [rs EXCEPT !.status[user_id] = [status |-> value, ttl |-> seconds]]
get(rs, user_id) == rs.status[user_id]
smembers(rs) == rs.online_users

\* Redis drops a key once the expiry it was stored with has run out; a key
\* stored without expiry stays
expire_status(rs, user_id) ==
    IF rs.status[user_id].ttl # NoTtl
    THEN [rs EXCEPT !.status[user_id] = NoRecord]
    ELSE rs

expire_online(rs) ==
    IF rs.online_ttl # NoTtl THEN [rs EXCEPT !.online_users = {}] ELSE rs

\* RedisManager.__init__ has no body of its own: _redis_client is the class
\* attribute None until _connect assigns it on the object it is called on,
\* and only initialize() calls _connect, on the singleton
connected(has_client, handle, ping_ok) ==
    [has_client EXCEPT ![handle] = ping_ok]

\* the methods: has_client is the object's _redis_client, fail is the
\* number of the cache command that raises during the call (0: none); the
\* try/except of each method swallows the exception
NoFail == 0

set_user_online(rs, has_client, user_id, status, fail) ==
    IF ~has_client THEN rs
    ELSE IF fail = 1 THEN rs
    ELSE LET r1 == sadd(rs, user_id)
         IN  IF fail = 2 THEN r1
             ELSE setex(r1, user_id, STATUS_EXPIRE, status)

set_user_offline(rs, has_client, user_id, fail) ==
    IF ~has_client THEN rs
    ELSE IF fail = 1 THEN rs
    ELSE LET r1 == srem(rs, user_id)
         IN  IF fail = 2 THEN r1
             ELSE setex(r1, user_id, STATUS_EXPIRE, "offline")

get_user_status(rs, has_client, user_id, fail) ==
    IF ~has_client THEN "offline"
    ELSE IF fail = 1 THEN "offline"
    ELSE LET status_data == get(rs, user_id)
         IN  IF status_data # NoRecord THEN status_data.status
             ELSE "offline"

get_online_users(rs, has_client, fail) ==
    IF ~has_client THEN {}
    ELSE IF fail = 1 THEN {}
    ELSE smembers(rs)

\* whether a cache command raises inside the try block of a method
command_raises(has_client, fail) == has_client /\ fail # NoFail

\* mutant: the except clause lets the exception through
except_Exception_reraises(exc) ==
    exc

\* except Exception as e: print(...): whether an exception leaves the
\* method after its except clause
except_Exception(exc) ==
    FALSE

\* a RedisManager call, what it returned and whether it raised
PCall(op, handle, user, fail, users, status) ==
    [op |-> op, handle |-> handle, user |-> user, fail |-> fail,
     users |-> users, status |-> status,
     raised |-> except_Exception(command_raises(redis_client[handle], fail))]

NoMark == [op |-> "none", elapsed |-> FALSE]

\* a set_user_online/set_user_offline call just made: "online"/"offline"
\* when it issued both cache commands, "incomplete" when the object had no
\* client or a command raised
Mark(op, has_client, fail) ==
    [op |-> IF has_client /\ fail = NoFail THEN op ELSE "incomplete",
     elapsed |-> FALSE]

\* the presence side before any call, with the cache reachable at startup
PresIdle ==
    /\ redis = EmptyRedis
    /\ redis_client = connected([h \in Handles |-> FALSE], Singleton, TRUE)
    /\ marks = [u \in Users |-> NoMark]
    /\ plast = PCall("init", Singleton, NoUser, NoFail, {}, "")

\* websocket_endpoint has not been entered for a WebSocket: user_id = None
NoHandler ==
    [pc |-> "idle", user_id |-> NoUser, error |-> "",
     unregistered |-> FALSE, marked_online |-> FALSE,
     marked_offline |-> FALSE]

GwIdle == handler = [c \in Channels |-> NoHandler]

\* no message has been handled
NoMsg == ""

MsgIdle == msg = NoMsg /\ typing = {}

\* no send_to_room or broadcast call is being executed step by step
NoTask ==
    [kind |-> "none", pc |-> "idle", room_id |-> 0, exclude_user |-> NoUser,
     start |-> {}, attached |-> FALSE, iter_set |-> {}, used |-> 0,
     seen |-> {},
     pending |-> {}, fresh |-> {}, yields |-> 0,
     cur |-> NoUser, cur_chan |-> 0,
     written |-> {}, disconnected_users |-> {}, cleaned |-> {}]

TaskIdle == task = NoTask

\* no handler has received a message and nothing has been written
OrdIdle ==
    /\ inflight = [u \in Users |-> <<>>]
    /\ received = 0
    /\ wire = [c \in Channels |-> <<>>]

OwnIdle ==
    owner = [c \in Channels |-> NoUser]

\* the modules that build a ConnectionManager of their own when imported
Gateway == "websocket_endpoints.ws_manager"
Instances ==
    {Gateway, "routes.chat.ws_manager", "routes.video_call.ws_manager",
     "routes.friends.ws_manager", "websocket_manager.manager"}

NoDelivery ==
    [module |-> "none", method |-> "none", user |-> NoUser,
     raised |-> FALSE, written |-> {}]

RegIdle ==
    /\ instance = [i \in Instances |-> InitState]
    /\ notified = NoDelivery

\* a coroutine slot in which no presence call is running
NoCall == [op |-> "none", user_id |-> NoUser, pc |-> 0]

CcIdle ==
    calls = [k \in 1..MaxCalls |-> NoCall]

\* a request slot in which no route is running
NoReq == [op |-> "none", user |-> NoUser, call_id |-> 0, pc |-> "idle"]

NoMove == [op |-> "none", user |-> NoUser, call_id |-> 0, was |-> "none"]

CallIdle ==
    /\ video_calls = <<>>
    /\ reqs = [k \in 1..MaxRequests |-> NoReq]
    /\ moved = NoMove

FRequest(op, user, friend_id, friendship_id, code) ==
    [op |-> op, user |-> user, friend_id |-> friend_id,
     friendship_id |-> friendship_id, code |-> code]

FriendIdle ==
    /\ friends = <<>>
    /\ flast = FRequest("none", NoUser, NoUser, 0, 0)

\* a coroutine slot in which no find_random_call_match is running
\* lindex past the end of the list, and a local not yet assigned: None
NoEntry == [entry |-> 0, user_id |-> NoUser, preferences |-> PyNone]

NoFinder ==
    [user_id |-> NoUser, preferences |-> PyNone, pc |-> "idle",
     queue_length |-> 0, i |-> 0, queue_item |-> NoEntry]

NoMatch == [caller |-> NoUser, user_id |-> NoUser, entry |-> 0]

QueueIdle ==
    /\ queue = <<>>
    /\ finders = [k \in 1..MaxRequests |-> NoFinder]
    /\ handed = [e \in 1..MaxEntries |-> 0]
    /\ matched = NoMatch
    /\ pushed = 0

ExtraIdle ==
    OwnIdle /\ RegIdle /\ CcIdle /\ CallIdle /\ FriendIdle /\ QueueIdle

\* ---- the state machine --------------------------------------------------
Cur == MkState(active_connections, rooms, user_rooms)

\* the call that produced the current state, and what the caller saw of it
Call(op, user, room, chan, exclude, o) ==
    [op |-> op, user |-> user, room |-> room, chan |-> chan,
     exclude |-> exclude,
     was_online |-> user # NoUser /\ is_user_online(Cur, user),
     was_chan |-> IF user # NoUser /\ is_user_online(Cur, user)
                  THEN DictGet(active_connections, user)
                  ELSE 0,
     was_in |-> IF user = NoUser THEN {}
                ELSE {r \in DOMAIN rooms : user \in rooms[r]},
     attempted |-> o.attempted, written |-> o.written, failed |-> o.failed,
     ret |-> o.ret, raised |-> o.st.raised]

\* a method without channel writes
Quiet(st) == Outcome(st, {}, {}, PyNone)

Becomes(st) ==
    /\ active_connections' = st.active_connections
    /\ rooms' = st.rooms
    /\ user_rooms' = st.user_rooms

MgrInit ==
    /\ active_connections = InitState.active_connections
    /\ rooms = InitState.rooms
    /\ user_rooms = InitState.user_rooms
    /\ last = Call("init", NoUser, 0, 0, NoUser, Quiet(InitState))

Init ==
    MgrInit /\ PresIdle /\ GwIdle /\ MsgIdle /\ TaskIdle /\ OrdIdle /\ ExtraIdle

\* a WebSocket object belongs to one client connection: the handler of that
\* connection is the only caller that passes it to connect, for its user
Connect(u, c, ok) ==
    LET st == connect(Cur, c, u, ok)
    IN  /\ \A p \in active_connections : p[2] = c => p[1] = u
        /\ Becomes(st)
        /\ last' = Call("connect", u, 0, c, NoUser, Quiet(st))
        /\ UNCHANGED nonMgrVars

Disconnect(u) ==
    LET st == disconnect(Cur, u)
    IN  /\ Becomes(st)
        /\ last' = Call("disconnect", u, 0, 0, NoUser, Quiet(st))
        /\ UNCHANGED nonMgrVars

JoinRoom(u, r) ==
    LET st == join_room(Cur, u, r)
    IN  /\ Becomes(st)
        /\ last' = Call("join_room", u, r, 0, NoUser, Quiet(st))
        /\ UNCHANGED nonMgrVars

LeaveRoom(u, r) ==
    LET st == leave_room(Cur, u, r)
    IN  /\ Becomes(st)
        /\ last' = Call("leave_room", u, r, 0, NoUser, Quiet(st))
        /\ UNCHANGED nonMgrVars

SendPersonalMessage(u, broken) ==
    LET o == send_personal_message(Cur, u, broken)
    IN  /\ Becomes(o.st)
        /\ last' = Call("send_personal_message", u, 0, 0, NoUser, o)
        /\ UNCHANGED nonMgrVars

SendToRoom(r, ex, broken) ==
    LET o == send_to_room(Cur, r, ex, broken)
    IN  /\ Becomes(o.st)
        /\ last' = Call("send_to_room", NoUser, r, 0, ex, o)
        /\ UNCHANGED nonMgrVars

Broadcast(ex, broken) ==
    LET o == broadcast(Cur, ex, broken)
    IN  /\ Becomes(o.st)
        /\ last' = Call("broadcast", NoUser, 0, 0, ex, o)
        /\ UNCHANGED nonMgrVars

Next ==
    \/ \E u \in Users, c \in Channels, ok \in BOOLEAN : Connect(u, c, ok)
    \/ \E u \in Users : Disconnect(u)
    \/ \E u \in Users, r \in Rooms : JoinRoom(u, r)
    \/ \E u \in Users, r \in Rooms : LeaveRoom(u, r)
    \/ \E u \in Users :
          \E broken \in SUBSET {u} : SendPersonalMessage(u, broken)
    \/ \E r \in Rooms, ex \in Users \cup {NoUser} :
          \E broken \in SUBSET get_room_users(Cur, r) :
             SendToRoom(r, ex, broken)
    \/ \E ex \in Users \cup {NoUser} :
          \E broken \in SUBSET DictKeys(active_connections) :
             Broadcast(ex, broken)

Spec == Init /\ [][Next]_vars

TypeOK ==
    /\ active_connections \subseteq Users \X Channels
    /\ DOMAIN rooms \subseteq Rooms
    /\ \A r \in DOMAIN rooms : rooms[r] \subseteq Users
    /\ DOMAIN user_rooms \subseteq Users
    /\ \A u \in DOMAIN user_rooms : user_rooms[u] \subseteq Rooms
    /\ ~last.raised \/ last.op = "connect"


\* ---- properties ---------------------------------------------------------
Member(st, u, r) == r \in DOMAIN st.rooms /\ u \in st.rooms[r]
InUserRooms(st, u, r) == u \in DOMAIN st.user_rooms /\ r \in st.user_rooms[u]

\* what the three queries show of a manager state
Obs(st) ==
    [online |-> {u \in Users : is_user_online(st, u)},
     room_users |-> [r \in Rooms |-> get_room_users(st, r)],
     user_rooms |-> [u \in Users |-> get_user_rooms(st, u)]]

\* C1: after every operation, u is in rooms[r] if and only if r is in
\* user_rooms[u], for every user u and room r.
C1_Bidirectional ==
    \A u \in Users, r \in Rooms : Member(Cur, u, r) <=> InUserRooms(Cur, u, r)

\* a leave_room that removed a membership while other memberships remain
C1_Witness ==
    /\ last.op = "leave_room"
    /\ last.room \in last.was_in
    /\ \E u \in Users, r \in Rooms : Member(Cur, u, r)

\* C2: every room id present in the room index has at least one member; a
\* room nobody belongs to is absent from the index and get_room_users
\* answers empty for it.
C2_NoEmptyRoom ==
    /\ \A r \in DOMAIN rooms : rooms[r] # {}
    /\ \A r \in Rooms :
          (\A u \in Users : r \notin get_user_rooms(Cur, u))
             => r \notin DOMAIN rooms /\ get_room_users(Cur, r) = {}

\* a failed delivery to a room unregistered its last members: the room is gone
C2_Witness ==
    /\ last.op = "send_to_room"
    /\ last.failed # {}
    /\ last.room \notin DOMAIN rooms

\* C3: at most one channel is stored under any user id, and after a
\* completed connect(c, u) the lookup of u gives c.
C3_LastRegisterWins ==
    /\ \A u \in Users :
          Cardinality({p \in active_connections : p[1] = u}) <= 1
    /\ (last.op = "connect" /\ ~last.raised)
          => /\ is_user_online(Cur, last.user)
             /\ DictGet(active_connections, last.user) = last.chan

\* a connect that replaced another channel of the same user
C3_Witness ==
    /\ last.op = "connect"
    /\ ~last.raised
    /\ last.was_online
    /\ last.was_chan # last.chan
    /\ DictGet(active_connections, last.user) = last.chan

\* C4: right after disconnect(u), u has no registry entry, is a member of no
\* room, get_user_rooms(u) is empty, and the memberships of every other user
\* are what they were.
C4_DisconnectCascades ==
    [][\A u \in Users :
         (last'.op = "disconnect" /\ last'.user = u) =>
             /\ ~last'.raised
             /\ ~is_user_online(Cur, u)'
             /\ \A r \in Rooms : ~Member(Cur, u, r)'
             /\ get_user_rooms(Cur, u)' = {}
             /\ \A v \in Users \ {u} :
                   /\ get_user_rooms(Cur, v)' = get_user_rooms(Cur, v)
                   /\ \A r \in Rooms : Member(Cur, v, r)' <=> Member(Cur, v, r)
    ]_vars

\* a registered user left a room by disconnect in which another user stays
C4_Witness ==
    /\ last.op = "disconnect"
    /\ last.was_online
    /\ \E r \in last.was_in, v \in Users \ {last.user} : Member(Cur, v, r)
    /\ ~is_user_online(Cur, last.user)

\* the users send_to_room(room_id, exclude_user) has to write to, in a state
RoomTargets(st, room_id, exclude_user) ==
    {u \in Users : /\ Member(st, u, room_id)
                   /\ u # exclude_user
                   /\ is_user_online(st, u)}

\* C5: send_to_room writes to exactly the channels of the registered members
\* of the room other than the excluded user: never to the excluded user,
\* never to a non-member.
C5_RoomDeliveryExact ==
    [][last'.op = "send_to_room" =>
         LET r == last'.room
             ex == last'.exclude
         IN  /\ last'.attempted =
                   {<<u, DictGet(active_connections, u)>> :
                       u \in RoomTargets(Cur, r, ex)}
             /\ last'.written \subseteq last'.attempted
             /\ last'.failed = {} => last'.written = last'.attempted
             /\ \A w \in last'.attempted : w[1] # ex /\ Member(Cur, w[1], r)
    ]_vars

\* the excluded sender is a registered member and the message went to
\* somebody else
C5_Witness ==
    /\ last.op = "send_to_room"
    /\ last.exclude \in Users
    /\ Member(Cur, last.exclude, last.room)
    /\ is_user_online(Cur, last.exclude)
    /\ last.written # {}
    /\ last.failed = {}

\* C6: when the write of send_personal_message(A) fails, the call returns
\* with A unregistered: not online and in no room.
C6_DirectFailureUnregisters ==
    (last.op = "send_personal_message" /\ last.failed # {})
       => /\ ~last.raised
          /\ last.failed = {last.user}
          /\ ~is_user_online(Cur, last.user)
          /\ \A r \in Rooms : last.user \notin get_room_users(Cur, r)
          /\ get_user_rooms(Cur, last.user) = {}

\* the write to a user who was in a room failed
C6_Witness ==
    /\ last.op = "send_personal_message"
    /\ last.failed # {}
    /\ last.was_in # {}

\* C7: in send_to_room every target whose own write did not fail receives
\* the message; on return the members whose write failed are unregistered
\* and the members whose write succeeded are registered as before.
C7_RoomFailureIsolated ==
    [][last'.op = "send_to_room" =>
         LET targets == RoomTargets(Cur, last'.room, last'.exclude)
         IN  /\ ~last'.raised
             /\ last'.failed \subseteq targets
             /\ \A u \in targets \ last'.failed :
                   /\ <<u, DictGet(active_connections, u)>> \in last'.written
                   /\ <<u, DictGet(active_connections, u)>>
                         \in active_connections'
                   /\ get_user_rooms(Cur, u)' = get_user_rooms(Cur, u)
             /\ \A u \in last'.failed :
                   /\ ~is_user_online(Cur, u)'
                   /\ \A r \in Rooms : ~Member(Cur, u, r)'
                   /\ get_user_rooms(Cur, u)' = {}
    ]_vars

\* one member's write failed and another member received the message
C7_Witness ==
    /\ last.op = "send_to_room"
    /\ last.failed # {}
    /\ last.written # {}
    /\ \E w \in last.written : is_user_online(Cur, w[1])

\* C8: broadcast writes to every registered connection but the excluded
\* user's; a failed write does not keep the others from receiving, and on
\* return exactly the recipients whose write failed have been unregistered.
C8_BroadcastIsolated ==
    [][last'.op = "broadcast" =>
         LET targets == {p \in active_connections : p[1] # last'.exclude}
         IN  /\ ~last'.raised
             /\ last'.attempted = targets
             /\ \A p \in targets : p[1] \in last'.failed \/ p \in last'.written
             /\ \A p \in last'.written : p[1] \notin last'.failed
             /\ active_connections' =
                   {p \in active_connections : p[1] \notin last'.failed}
    ]_vars

\* a broadcast in which one write failed and another succeeded
C8_Witness ==
    /\ last.op = "broadcast"
    /\ last.failed # {}
    /\ last.written # {}

Truthy(v) == v = PyTrue
Falsy(v) == v \in {PyFalse, PyNone}

\* C9 as stated: the value send_personal_message returns tells whether the
\* message went to a channel: truthy when the target is registered and the
\* write succeeds, falsy when the target is absent or the write fails.
C9_ReturnTellsFound ==
    last.op = "send_personal_message" =>
       /\ ~last.raised
       /\ last.written # {} => Truthy(last.ret)
       /\ last.written = {} => Falsy(last.ret)

\* C9 (amended): send_personal_message returns None on every path; a
\* registered target gets one write to its channel and is unregistered when
\* that write fails; for an absent target nothing is written, and no
\* exception is raised in either case.
C9_ReturnsNone ==
    last.op = "send_personal_message" =>
       /\ last.ret = PyNone
       /\ ~last.raised
       /\ ~last.was_online => last.attempted = {} /\ last.written = {}
       /\ last.was_online =>
             /\ last.attempted = {<<last.user, last.was_chan>>}
             /\ \/ last.written = last.attempted /\ last.failed = {}
                \/ /\ last.written = {}
                   /\ last.failed = {last.user}
                   /\ ~is_user_online(Cur, last.user)

\* the message was delivered and the caller still got None
C9_Witness ==
    /\ last.op = "send_personal_message"
    /\ last.written # {}
    /\ last.ret = PyNone

\* C10: after join_room(u, r), leave_room(u, r) or disconnect(u) has been
\* called, calling it again with the same arguments raises nothing and
\* leaves is_user_online, get_room_users and get_user_rooms as they are.
C10_Idempotent ==
    /\ last.op = "join_room" =>
          LET again == join_room(Cur, last.user, last.room)
          IN  ~again.raised /\ Obs(again) = Obs(Cur)
    /\ last.op = "leave_room" =>
          LET again == leave_room(Cur, last.user, last.room)
          IN  ~again.raised /\ Obs(again) = Obs(Cur)
    /\ last.op = "disconnect" =>
          LET again == disconnect(Cur, last.user)
          IN  ~again.raised /\ Obs(again) = Obs(Cur)

\* a disconnect that removed a registered member of a room has happened
C10_Witness ==
    /\ last.op = "disconnect"
    /\ last.was_online
    /\ last.was_in # {}


\* the orders in which the users of a set can act
Orders(S) ==
    {f \in [1..Cardinality(S) -> S] :
        \A i, j \in 1..Cardinality(S) : f[i] = f[j] => i = j}

\* leave_room(order[1], r); leave_room(order[2], r); ...
RECURSIVE LeaveInOrder(_, _, _)
LeaveInOrder(st, order, room_id) ==
    IF order = <<>> \/ st.raised THEN st
    ELSE LeaveInOrder(leave_room(st, Head(order), room_id),
                      Tail(order), room_id)

\* C11: when every user that joined a room leaves it, in any order, the
\* room is absent from the index, get_room_users is empty for it and no
\* user that was involved has it in get_user_rooms.
C11_RoundTrip ==
    /\ \A r \in Rooms :
          LET joined == get_room_users(Cur, r)
          IN  \A order \in Orders(joined) :
                 LET st == LeaveInOrder(Cur, order, r)
                 IN  /\ ~st.raised
                     /\ r \notin DOMAIN st.rooms
                     /\ get_room_users(st, r) = {}
                     /\ \A u \in joined : r \notin get_user_rooms(st, u)
    /\ (last.op = "leave_room" /\ get_room_users(Cur, last.room) = {})
          => /\ last.room \notin DOMAIN rooms
             /\ \A u \in Users : last.room \notin get_user_rooms(Cur, u)

\* the last member has left a room that another user, who joined without a
\* connection, had left before
C11_Witness ==
    /\ last.op = "leave_room"
    /\ last.room \in last.was_in
    /\ last.room \notin DOMAIN rooms
    /\ \E u \in Users \ {last.user} :
          u \in DOMAIN user_rooms /\ ~is_user_online(Cur, u)


\* ---- the presence cache as a state machine ------------------------------
\* startup: RedisManager.initialize() has run _connect on the singleton,
\* whose ping succeeded or raised; the modules' own objects were never
\* connected
PresInit ==
    /\ MgrInit
    /\ GwIdle
    /\ MsgIdle
    /\ TaskIdle
    /\ OrdIdle
    /\ ExtraIdle
    /\ redis = EmptyRedis
    /\ \E ping_ok \in BOOLEAN :
          redis_client = connected([h \in Handles |-> FALSE], Singleton, ping_ok)
    /\ marks = [u \in Users |-> NoMark]
    /\ plast = PCall("init", Singleton, NoUser, NoFail, {}, "")

SetUserOnline(h, u, fail) ==
    /\ redis' = set_user_online(redis, redis_client[h], u, "online", fail)
    /\ marks' = [marks EXCEPT ![u] = Mark("online", redis_client[h], fail)]
    /\ plast' = PCall("set_user_online", h, u, fail, {}, "")
    /\ UNCHANGED <<redis_client, nonPresVars>>

SetUserOffline(h, u, fail) ==
    /\ redis' = set_user_offline(redis, redis_client[h], u, fail)
    /\ marks' = [marks EXCEPT ![u] = Mark("offline", redis_client[h], fail)]
    /\ plast' = PCall("set_user_offline", h, u, fail, {}, "")
    /\ UNCHANGED <<redis_client, nonPresVars>>

GetUserStatus(h, u, fail) ==
    /\ plast' = PCall("get_user_status", h, u, fail, {},
                      get_user_status(redis, redis_client[h], u, fail))
    /\ UNCHANGED <<redis, redis_client, marks, nonPresVars>>

GetOnlineUsers(h, fail) ==
    /\ plast' = PCall("get_online_users", h, NoUser, fail,
                      get_online_users(redis, redis_client[h], fail), "")
    /\ UNCHANGED <<redis, redis_client, marks, nonPresVars>>

\* STATUS_EXPIRE seconds pass without a set_user_online or set_user_offline
\* call for u: every key of u stored with that expiry is dropped
TtlElapses(u) ==
    /\ marks[u].op # "none"
    /\ ~marks[u].elapsed
    /\ redis' = expire_online(expire_status(redis, u))
    /\ marks' = [marks EXCEPT ![u].elapsed = TRUE]
    /\ plast' = PCall("ttl_elapses", Singleton, u, NoFail, {}, "")
    /\ UNCHANGED <<redis_client, nonPresVars>>

PresNext ==
    \/ \E h \in Handles, u \in Users, fail \in 0..2 : SetUserOnline(h, u, fail)
    \/ \E h \in Handles, u \in Users, fail \in 0..2 : SetUserOffline(h, u, fail)
    \/ \E h \in Handles, u \in Users, fail \in 0..1 : GetUserStatus(h, u, fail)
    \/ \E h \in Handles, fail \in 0..1 : GetOnlineUsers(h, fail)
    \/ \E u \in Users : TtlElapses(u)

PresSpec == PresInit /\ [][PresNext]_vars


\* C12 as stated: with the cache reachable and no cache command failing,
\* after set_user_online(u) has completed get_online_users() contains u,
\* and after set_user_offline(u) it does not, through whichever
\* RedisManager object the calling module holds.
C12_PresenceRoundTrip ==
    (redis_client[Singleton] /\ plast.fail = NoFail) =>
       /\ plast.op = "set_user_online" =>
             plast.user \in
                get_online_users(redis, redis_client[plast.handle], NoFail)
       /\ plast.op = "set_user_offline" =>
             plast.user \notin
                get_online_users(redis, redis_client[plast.handle], NoFail)

\* C13 as stated: once STATUS_EXPIRE seconds have passed after a
\* set_user_online(u) with no further call for u, u is reported offline:
\* no get_online_users() contains it and get_user_status(u) is offline.
C13_PresenceExpires ==
    \A u \in Users :
       (marks[u].op = "online" /\ marks[u].elapsed) =>
          \A h \in Handles :
             /\ u \notin get_online_users(redis, redis_client[h], NoFail)
             /\ get_user_status(redis, redis_client[h], u, NoFail) = "offline"



\* ---- the gateway: websocket_endpoint -------------------------------------
\* Python values as the interpreter sees them at a call: a str holding a
\* user id, and a WebSocket object
Str(u) == <<"str", u>>
Ws(c) == <<"WebSocket", c>>

\* ConnectionManager.connect(websocket, user_id) called with whatever two
\* objects the caller passes positionally: `await websocket.accept()` is an
\* AttributeError when the first one is not a WebSocket, and nothing has
\* been stored by then
connect_call(st, websocket, user_id, accept_ok) ==
    IF websocket[1] # "WebSocket" THEN Raise(st)
    ELSE connect(st, websocket[2], user_id[2], accept_ok)

\* the finally block of websocket_endpoint (lines 75-80): the call
\* ws_manager.disconnect(user_id) is evaluated first and changes the
\* registry; awaiting its result None then raises TypeError, so the two
\* statements after it are not reached
finally_registry(st, user_id) ==
    IF user_id # NoUser THEN disconnect(st, user_id) ELSE st

\* lines 24-31: verify_websocket_token(token) returns a user id, returns
\* None (the socket is closed with 4001 and the coroutine returns through a
\* finally block that does nothing), or raises (logged at line 73)
GwVerify(c, res, raises) ==
    /\ handler[c].pc = "idle"
    /\ handler' = [handler EXCEPT ![c] =
          IF raises THEN [@ EXCEPT !.pc = "ended", !.error = "Exception"]
          ELSE IF res = NoUser THEN [@ EXCEPT !.pc = "ended"]
          ELSE [@ EXCEPT !.pc = "verified", !.user_id = res]]
    /\ UNCHANGED <<mgrVars, presVars, msgVars, taskVars, ordVars, extraVars>>

\* lines 34-46: ws_manager.connect(user_id, websocket), then
\* redis_manager.set_user_online(user_id) on the module's own RedisManager
\* object, then the message loop; an exception goes to line 72
GwConnect(c, accept_ok) ==
    /\ handler[c].pc = "verified"
    /\ LET user_id == handler[c].user_id
           o == connect_call(Cur, Str(user_id), Ws(c), accept_ok)
       IN  IF o.raised
           THEN /\ handler' = [handler EXCEPT ![c].pc = "except",
                                              ![c].error = "AttributeError"]
                /\ UNCHANGED <<mgrVars, presVars, msgVars, taskVars, ordVars, extraVars>>
           ELSE /\ Becomes(o)
                /\ last' = Call("connect", user_id, 0, c, NoUser, Quiet(o))
                /\ redis' = set_user_online(redis, redis_client[Private],
                                            user_id, "online", NoFail)
                /\ marks' = [marks EXCEPT ![user_id] =
                                Mark("online", redis_client[Private], NoFail)]
                /\ plast' = PCall("set_user_online", Private, user_id,
                                  NoFail, {}, "")
                /\ handler' = [handler EXCEPT ![c].pc = "loop",
                                              ![c].marked_online = TRUE]
                /\ UNCHANGED <<redis_client, msgVars, taskVars, ordVars, extraVars>>

\* the cleanup written after the message loop instead of in a finally block
GwFinally_after_loop_only(c) ==
    /\ handler[c].pc \in {"except", "loop_ended"}
    /\ LET o == IF handler[c].pc = "loop_ended"
                THEN finally_registry(Cur, handler[c].user_id)
                ELSE Cur
       IN  /\ Becomes(o)
           /\ last' = Call("disconnect", handler[c].user_id, 0, 0, NoUser,
                           Quiet(o))
           /\ handler' = [handler EXCEPT ![c].pc = "ended",
                                         ![c].unregistered =
                                             (handler[c].pc = "loop_ended")]
    /\ UNCHANGED <<presVars, msgVars, taskVars, ordVars, extraVars>>

\* lines 75-80, entered with user_id set
GwFinally(c) ==
    /\ handler[c].pc \in {"except", "loop_ended"}
    /\ LET o == finally_registry(Cur, handler[c].user_id)
       IN  /\ Becomes(o)
           /\ last' = Call("disconnect", handler[c].user_id, 0, 0, NoUser,
                           Quiet(o))
           /\ handler' = [handler EXCEPT ![c].pc = "ended",
                                         ![c].error = "TypeError",
                                         ![c].unregistered = TRUE]
    /\ UNCHANGED <<presVars, msgVars, taskVars, ordVars, extraVars>>

\* routes/auth.py: login and logout mark the user through
\* RedisManager.get_instance()
Login(u) == SetUserOnline(Singleton, u, NoFail)
Logout(u) == SetUserOffline(Singleton, u, NoFail)

GwNext ==
    \/ \E c \in Channels, res \in Users \cup {NoUser}, raises \in BOOLEAN :
          GwVerify(c, res, raises)
    \/ \E c \in Channels, accept_ok \in BOOLEAN : GwConnect(c, accept_ok)
    \/ \E c \in Channels : GwFinally(c)
    \/ \E u \in Users : Login(u)
    \/ \E u \in Users : Logout(u)

GwSpec == PresInit /\ [][GwNext]_vars


\* C14 as stated: when the token verified to user u, the step at line 34
\* registers (u, channel), so that afterwards is_user_online(u) holds with
\* that channel stored under u, the presence cache has u marked online, and
\* the handler stands in its message loop.
C14_ConnectFlow ==
    [][\A c \in Channels :
          (handler[c].pc = "verified" /\ handler'[c].pc # "verified") =>
             /\ handler'[c].pc = "loop"
             /\ DictHas(active_connections', handler[c].user_id)
             /\ DictGet(active_connections', handler[c].user_id) = c
             /\ handler[c].user_id \in redis'.online_users]_vars

C16_PresenceFollows ==
    \A c \in Channels :
       (handler[c].pc = "ended" /\ handler[c].user_id # NoUser) =>
          handler[c].marked_offline



\* ---- inbound messages: ConnectionManager.handle_message ------------------
\* the values of message["type"] the dispatch tells apart; anything else
\* takes the else branch
MessageTypes ==
    {"ping", "join_room", "leave_room", "room_message", "private_message",
     "typing", "call_signal", "unknown"}

\* a message as the dispatch reads it: data.room_id (0 when missing),
\* data.target_user_id / data.other_user_id (NoUser when missing),
\* data.is_typing, and whether signal_type and signal_data are both given
Message(sender, type, room_id, target_user_id, is_typing, signal) ==
    [sender |-> sender, type |-> type, room_id |-> room_id,
     target_user_id |-> target_user_id, is_typing |-> is_typing,
     signal |-> signal]

\* mutant: a room_message is forwarded whoever sent it
handle_message_any_sender(st, user_id, message, broken) ==
    CASE message.type = "ping" ->
            send_personal_message(st, user_id, broken)
      [] message.type = "join_room" ->
            IF message.room_id # 0
            THEN send_to_room(join_room(st, user_id, message.room_id),
                              message.room_id, user_id, broken)
            ELSE Outcome(st, {}, broken, PyNone)
      [] message.type = "leave_room" ->
            IF message.room_id # 0
            THEN LET s1 == leave_room(st, user_id, message.room_id)
                 IN  IF s1.raised THEN Outcome(s1, {}, broken, PyNone)
                     ELSE send_to_room(s1, message.room_id, NoUser, broken)
            ELSE Outcome(st, {}, broken, PyNone)
      [] message.type = "room_message" ->
            IF message.room_id # 0
            THEN send_to_room(st, message.room_id, user_id, broken)
            ELSE Outcome(st, {}, broken, PyNone)
      [] message.type = "private_message" ->
            IF message.target_user_id # NoUser
            THEN send_personal_message(st, message.target_user_id, broken)
            ELSE Outcome(st, {}, broken, PyNone)
      [] message.type = "typing" ->
            IF message.target_user_id # NoUser
            THEN send_personal_message(st, message.target_user_id, broken)
            ELSE Outcome(st, {}, broken, PyNone)
      [] message.type = "call_signal" ->
            IF message.target_user_id # NoUser /\ message.signal
            THEN send_personal_message(st, message.target_user_id, broken)
            ELSE Outcome(st, {}, broken, PyNone)
      [] OTHER ->
            send_personal_message(st, user_id, broken)

\* mutant: the else branch tells every connection about the unknown type
handle_message_error_to_all(st, user_id, message, broken) ==
    IF message.type = "unknown"
    THEN broadcast(st, NoUser, broken)
    ELSE Outcome(st, {}, broken, PyNone)

handle_message(st, user_id, message, broken) ==
    CASE message.type = "ping" ->
            send_personal_message(st, user_id, broken)
      [] message.type = "join_room" ->
            IF message.room_id # 0
            THEN send_to_room(join_room(st, user_id, message.room_id),
                              message.room_id, user_id, broken)
            ELSE Outcome(st, {}, broken, PyNone)
      [] message.type = "leave_room" ->
            IF message.room_id # 0
            THEN LET s1 == leave_room(st, user_id, message.room_id)
                 IN  IF s1.raised THEN Outcome(s1, {}, broken, PyNone)
                     ELSE send_to_room(s1, message.room_id, NoUser, broken)
            ELSE Outcome(st, {}, broken, PyNone)
      [] message.type = "room_message" ->
            IF message.room_id # 0
                  /\ message.room_id \in get_user_rooms(st, user_id)
            THEN send_to_room(st, message.room_id, user_id, broken)
            ELSE Outcome(st, {}, broken, PyNone)
      [] message.type = "private_message" ->
            IF message.target_user_id # NoUser
            THEN send_personal_message(st, message.target_user_id, broken)
            ELSE Outcome(st, {}, broken, PyNone)
      [] message.type = "typing" ->
            IF message.target_user_id # NoUser
            THEN send_personal_message(st, message.target_user_id, broken)
            ELSE Outcome(st, {}, broken, PyNone)
      [] message.type = "call_signal" ->
            IF message.target_user_id # NoUser /\ message.signal
            THEN send_personal_message(st, message.target_user_id, broken)
            ELSE Outcome(st, {}, broken, PyNone)
      [] OTHER ->
            send_personal_message(st, user_id, broken)

\* the typing branch's cache commands, through RedisManager.get_instance():
\* set_typing stores the key, remove_typing deletes it, neither does
\* anything without a client
handle_message_typing(keys, has_client, user_id, message) ==
    IF message.type = "typing" /\ has_client
    THEN IF message.is_typing THEN keys \cup {user_id}
         ELSE keys \ {user_id}
    ELSE keys

\* the fields of data a branch reads; the others are left at their missing
\* value
RoomField(type) ==
    IF type \in {"join_room", "leave_room", "room_message"}
    THEN Rooms \cup {0} ELSE {0}

TargetField(type) ==
    IF type \in {"private_message", "typing", "call_signal"}
    THEN Users \cup {NoUser} ELSE {NoUser}

FlagField(type, read_by) == IF type = read_by THEN BOOLEAN ELSE {FALSE}

\* the users a write is attempted to while the message is handled, if no
\* write fails
Recipients(u, message) ==
    {w[1] : w \in handle_message(Cur, u, message, {}).attempted}

HandleMessage(u, type, room_id, target, is_typing, signal, broken) ==
    LET message == Message(u, type, room_id, target, is_typing, signal)
        o == handle_message(Cur, u, message, broken)
    IN  /\ Becomes(o.st)
        /\ last' = Call("handle_message", u, room_id, 0, NoUser, o)
        /\ msg' = message.type
        /\ typing' = handle_message_typing(typing, redis_client[Singleton],
                                           u, message)
        /\ UNCHANGED <<presVars, gwVars, taskVars, ordVars, extraVars>>

\* TYPING_EXPIRE seconds pass after set_typing
TypingElapses(u) ==
    /\ u \in typing
    /\ typing' = typing \ {u}
    /\ last' = Call("typing_elapses", u, 0, 0, NoUser, Quiet(Cur))
    /\ UNCHANGED <<active_connections, rooms, user_rooms, msg, presVars,
                   gwVars, taskVars, ordVars, extraVars>>

MsgNext ==
    \/ \E u \in Users, c \in Channels, ok \in BOOLEAN : Connect(u, c, ok)
    \/ \E u \in Users, type \in MessageTypes :
          \E room_id \in RoomField(type), target \in TargetField(type),
             is_typing \in FlagField(type, "typing"),
             signal \in FlagField(type, "call_signal") :
             \E broken \in SUBSET Recipients(u, Message(u, type, room_id,
                                            target, is_typing, signal)) :
                HandleMessage(u, type, room_id, target, is_typing, signal,
                              broken)
    \/ \E u \in Users : TypingElapses(u)

MsgSpec == Init /\ [][MsgNext]_vars



\* C17 as stated: an inbound message of an unrecognised type from a
\* connected sender is answered with an error envelope written to the
\* sender's channel and to no other, changes no registry or room state, and
\* leaves the sender registered.
C17_UnknownKeepsOpen ==
    [][(last'.op = "handle_message" /\ msg' = "unknown"
           /\ last'.was_online) =>
          /\ last'.attempted = {<<last'.user, last'.was_chan>>}
          /\ active_connections' = active_connections
          /\ rooms' = rooms
          /\ user_rooms' = user_rooms
          /\ DictHas(active_connections', last'.user)]_vars

\* C17 amended: the error envelope of an unrecognised type is written to
\* the sender's channel only (to nobody when the sender has no connection);
\* when that write succeeds no registry or room state changes and the
\* sender stays registered; when it fails the sender is unregistered and
\* leaves its rooms, exactly as disconnect(sender) does.
C17_UnknownType ==
    [][(last'.op = "handle_message" /\ msg' = "unknown") =>
          /\ ~last'.raised
          /\ last'.attempted = IF last'.was_online
                               THEN {<<last'.user, last'.was_chan>>}
                               ELSE {}
          /\ last'.failed = {} =>
                /\ active_connections' = active_connections
                /\ rooms' = rooms
                /\ user_rooms' = user_rooms
          /\ \A u \in Users :
                (last'.user = u /\ last'.failed # {}) =>
                   /\ active_connections' = disconnect(Cur, u).active_connections
                   /\ rooms' = disconnect(Cur, u).rooms
                   /\ user_rooms' = disconnect(Cur, u).user_rooms]_vars

\* an unrecognised type was answered on the sender's channel while another
\* user, in a room with the sender, is connected and was written nothing
C17_Witness ==
    /\ last.op = "handle_message" /\ msg = "unknown"
    /\ last.written = {<<last.user, last.was_chan>>}
    /\ \E v \in Users \ {last.user} :
          /\ is_user_online(Cur, v)
          /\ \E r \in Rooms : Member(Cur, v, r) /\ Member(Cur, last.user, r)



\* ---- send_to_room and broadcast, one suspension at a time ----------------
\* Both methods iterate a live container and are suspended inside the loop
\* at `await ... send_json(message)`; other coroutines run meanwhile. The
\* fields of task:
\*   start      the members of the room (the registered users, for
\*              broadcast) when the call started
\*   attached, iter_set   send_to_room: whether the set object the iterator
\*              reads is still self.rooms[room_id], and its elements (a set
\*              that leave_room emptied and deleted stays empty)
\*   used       the size the iterator recorded when it was created
\*   seen       send_to_room: the members the iterator has yielded
\*   pending, fresh, yields   broadcast: the entries of the dict not yet
\*              yielded, those present from the start and those inserted
\*              since (a dict keeps insertion order), and the number of
\*              entries yielded
\*   cur, cur_chan   the recipient of the write the call is suspended in
\*   written    the (user, channel) pairs written successfully
\*   disconnected_users, cleaned   the list of the same name, and the users
\*              the final loop called self.disconnect for
Finished(t) == t.pc \in {"done", "RuntimeError"}

\* how a call made by another coroutine, taking the registry from st0 to
\* st1, shows to the iterator of the suspended call
observe(t, st0, st1) ==
    IF t.pc # "sending" THEN t
    ELSE IF t.kind = "send_to_room"
    THEN IF t.attached /\ t.room_id \in DOMAIN st1.rooms
         THEN [t EXCEPT !.iter_set = st1.rooms[t.room_id]]
         ELSE [t EXCEPT !.attached = FALSE, !.iter_set = {}]
    ELSE LET deleted == DictKeys(st0.active_connections)
                           \ DictKeys(st1.active_connections)
             inserted == DictKeys(st1.active_connections)
                            \ DictKeys(st0.active_connections)
         IN  [t EXCEPT !.pending = @ \ deleted,
                       !.fresh = (@ \ deleted) \cup inserted]

\* the result of the write the call was suspended in: line 104-108 (66-68)
resumed(t, ok) ==
    IF t.pc # "sending" THEN t
    ELSE IF ok
    THEN [t EXCEPT !.written = @ \cup {<<t.cur, t.cur_chan>>},
                   !.cur = NoUser, !.cur_chan = 0]
    ELSE [t EXCEPT !.disconnected_users = @ \cup {t.cur},
                   !.cur = NoUser, !.cur_chan = 0]

\* for user_id in self.rooms[room_id]: the ways the loop can run on from
\* here to its next suspension or to its end, the set being unchanged on
\* the way. The order of a set is not defined; a member added after the
\* iterator was created may lie behind its position and be passed over.
RECURSIVE room_loop(_, _)
room_loop(t, st) ==
    LET ahead == t.iter_set \ t.seen
    IN  (IF ahead \cap t.start = {} THEN {[t EXCEPT !.pc = "cleanup"]}
         ELSE {})
        \cup
        UNION {LET t1 == [t EXCEPT !.seen = @ \cup {user_id}]
               IN  IF user_id # t.exclude_user
                        /\ DictHas(st.active_connections, user_id)
                   THEN {[t1 EXCEPT !.pc = "sending", !.cur = user_id,
                             !.cur_chan = DictGet(st.active_connections,
                                                  user_id)]}
                   ELSE room_loop(t1, st) : user_id \in ahead}

\* for user_id, websocket in self.active_connections.items(): entries are
\* yielded in insertion order, those present from the start before those
\* inserted since; an entry found after `used` entries were yielded is a
\* RuntimeError (dictionary keys changed during iteration)
RECURSIVE dict_loop(_, _)
dict_loop(t, st) ==
    LET ahead == IF t.pending # {} THEN t.pending ELSE t.fresh
    IN  IF ahead = {} THEN {[t EXCEPT !.pc = "cleanup"]}
        ELSE IF t.yields = t.used THEN {[t EXCEPT !.pc = "RuntimeError"]}
        ELSE UNION {LET t1 == [t EXCEPT !.pending = @ \ {user_id},
                                        !.fresh = @ \ {user_id},
                                        !.yields = @ + 1]
                    IN  IF user_id # t.exclude_user
                        THEN {[t1 EXCEPT !.pc = "sending", !.cur = user_id,
                                  !.cur_chan = DictGet(st.active_connections,
                                                       user_id)]}
                        ELSE dict_loop(t1, st) : user_id \in ahead}

\* the next() of the loop: a container whose size differs from the one the
\* iterator recorded raises RuntimeError (changed size during iteration),
\* which no except clause of the method catches
advance(t, st) ==
    IF t.kind = "send_to_room"
    THEN IF Cardinality(t.iter_set) # t.used
         THEN {[t EXCEPT !.pc = "RuntimeError"]}
         ELSE room_loop(t, st)
    ELSE IF Cardinality(DictKeys(st.active_connections)) # t.used
         THEN {[t EXCEPT !.pc = "RuntimeError"]}
         ELSE dict_loop(t, st)

\* one stretch of the call between two suspensions; the loop's end is
\* followed by `for user_id in disconnected_users: self.disconnect(user_id)`
Stretch(t) ==
    \E t1 \in advance(t, Cur) :
       IF t1.pc = "cleanup"
       THEN /\ Becomes(disconnect_all(Cur, t1.disconnected_users))
            /\ task' = [t1 EXCEPT !.pc = "done",
                                  !.cleaned = t1.disconnected_users]
       ELSE /\ task' = t1
            /\ UNCHANGED <<active_connections, rooms, user_rooms>>

StartSendToRoom(room_id, exclude_user) ==
    /\ task.kind = "none"
    /\ IF room_id \notin DOMAIN rooms
       THEN /\ task' = [task EXCEPT !.kind = "send_to_room", !.pc = "done",
                                    !.room_id = room_id,
                                    !.exclude_user = exclude_user]
            /\ UNCHANGED <<active_connections, rooms, user_rooms>>
       ELSE Stretch([task EXCEPT !.kind = "send_to_room",
                                 !.room_id = room_id,
                                 !.exclude_user = exclude_user,
                                 !.start = rooms[room_id],
                                 !.attached = TRUE,
                                 !.iter_set = rooms[room_id],
                                 !.used = Cardinality(rooms[room_id])])
    /\ UNCHANGED <<last, <<presVars, gwVars, msgVars, ordVars, extraVars>>>>

StartBroadcast(exclude_user) ==
    /\ task.kind = "none"
    /\ Stretch([task EXCEPT !.kind = "broadcast",
                            !.exclude_user = exclude_user,
                            !.start = DictKeys(active_connections),
                            !.pending = DictKeys(active_connections),
                            !.used = Cardinality(DictKeys(active_connections))])
    /\ UNCHANGED <<last, <<presVars, gwVars, msgVars, ordVars, extraVars>>>>

\* the write the call was suspended in returns (ok) or raises
Resume(ok) ==
    /\ task.pc = "sending"
    /\ Stretch(resumed(task, ok))
    /\ UNCHANGED <<last, <<presVars, gwVars, msgVars, ordVars, extraVars>>>>

\* calls made by other coroutines while the call is suspended or before it
\* starts; the behaviour is followed until the call has returned or raised
Meanwhile(st) ==
    /\ ~Finished(task)
    /\ Becomes(st)
    /\ task' = observe(task, Cur, st)
    /\ UNCHANGED <<presVars, gwVars, msgVars, ordVars, extraVars>>

OtherConnect(u, c) ==
    /\ \A p \in active_connections : p[2] = c => p[1] = u
    /\ Meanwhile(connect(Cur, c, u, TRUE))
    /\ last' = Call("connect", u, 0, c, NoUser, Quiet(connect(Cur, c, u, TRUE)))

OtherDisconnect(u) ==
    /\ Meanwhile(disconnect(Cur, u))
    /\ last' = Call("disconnect", u, 0, 0, NoUser, Quiet(disconnect(Cur, u)))

OtherJoinRoom(u, r) ==
    /\ Meanwhile(join_room(Cur, u, r))
    /\ last' = Call("join_room", u, r, 0, NoUser, Quiet(join_room(Cur, u, r)))

OtherLeaveRoom(u, r) ==
    /\ Meanwhile(leave_room(Cur, u, r))
    /\ last' = Call("leave_room", u, r, 0, NoUser, Quiet(leave_room(Cur, u, r)))

TaskNext ==
    \/ \E r \in Rooms, ex \in Users \cup {NoUser} : StartSendToRoom(r, ex)
    \/ \E ex \in Users \cup {NoUser} : StartBroadcast(ex)
    \/ \E ok \in BOOLEAN : Resume(ok)
    \/ \E u \in Users, c \in Channels : OtherConnect(u, c)
    \/ \E u \in Users : OtherDisconnect(u)
    \/ \E u \in Users, r \in Rooms : OtherJoinRoom(u, r)
    \/ \E u \in Users, r \in Rooms : OtherLeaveRoom(u, r)

TaskSpec == Init /\ [][TaskNext]_vars



\* C18 as stated: whatever join_room, leave_room or disconnect calls other
\* coroutines make on the room while send_to_room is suspended in a write,
\* the call returns without raising, and every member whose write failed
\* has been unregistered by then.
C18_RoomSnapshot ==
    (task.kind = "send_to_room" /\ Finished(task)) =>
       /\ task.pc = "done"
       /\ task.cleaned = task.disconnected_users
       /\ \A u \in task.disconnected_users : ~is_user_online(Cur, u)

\* C19 as stated: whatever connect or disconnect calls other coroutines
\* make while broadcast is suspended in a write, the call returns without
\* raising, and every recipient whose write failed has been unregistered by
\* then.
C19_BroadcastTolerant ==
    (task.kind = "broadcast" /\ Finished(task)) =>
       /\ task.pc = "done"
       /\ task.cleaned = task.disconnected_users
       /\ \A u \in task.disconnected_users : ~is_user_online(Cur, u)



\* ---- connection handlers taking one message after the other --------------
\* A handler is the loop of websocket_endpoint (lines 49-55):
\*     data = await websocket.receive_json()
\*     await handle_websocket_message(user_id, data)
\* and a message routed to another user is written by
\* ConnectionManager.send_personal_message (lines 48-51): the recipient's
\* websocket is looked up, then the coroutine is suspended in send_json.
\* A message in flight: its number in the order of reception, the user it
\* is routed to, and where its handling stands.
InFlight(n, target) ==
    [n |-> n, target |-> target, pc |-> "received", chan |-> 0]

\* the sequence q without its i-th element
Without(q, i) == SubSeq(q, 1, i - 1) \o SubSeq(q, i + 1, Len(q))

\* mutant: the loop starts the handling as a task of its own and goes back
\* to receive_json without awaiting it
loop_may_receive_unawaited(q) ==
    TRUE

\* line 52 is reached again only when the await of line 55 has returned
loop_may_receive(q) ==
    q = <<>>

\* data = await websocket.receive_json(): the next message of the sender's
\* stream, addressed to target
LoopReceive(s, target) ==
    /\ is_user_online(Cur, s)
    /\ received < MaxMessages
    /\ loop_may_receive(inflight[s])
    /\ received' = received + 1
    /\ inflight' = [inflight EXCEPT ![s] =
                       Append(@, InFlight(received + 1, target))]
    /\ UNCHANGED <<mgrVars, presVars, gwVars, msgVars, taskVars, extraVars, wire>>

\* send_personal_message up to its await: a target without a connection
\* gets nothing and the handling is over
LoopSend(s, i) ==
    /\ i \in DOMAIN inflight[s]
    /\ inflight[s][i].pc = "received"
    /\ LET target == inflight[s][i].target
       IN  IF DictHas(active_connections, target)
           THEN inflight' = [inflight EXCEPT ![s][i].pc = "writing",
                                ![s][i].chan =
                                    DictGet(active_connections, target)]
           ELSE inflight' = [inflight EXCEPT ![s] = Without(@, i)]
    /\ UNCHANGED <<mgrVars, presVars, gwVars, msgVars, taskVars, extraVars, received,
                   wire>>

\* send_json returns (the message is on the channel) or raises (line 52-54:
\* the target is disconnected)
LoopWritten(s, i, ok) ==
    /\ i \in DOMAIN inflight[s]
    /\ inflight[s][i].pc = "writing"
    /\ inflight' = [inflight EXCEPT ![s] = Without(@, i)]
    /\ IF ok
       THEN /\ wire' = [wire EXCEPT ![inflight[s][i].chan] =
                           Append(@, <<s, inflight[s][i].n>>)]
            /\ UNCHANGED mgrVars
       ELSE /\ Becomes(disconnect(Cur, inflight[s][i].target))
            /\ last' = Call("disconnect", inflight[s][i].target, 0, 0, NoUser,
                            Quiet(disconnect(Cur, inflight[s][i].target)))
            /\ UNCHANGED wire
    /\ UNCHANGED <<presVars, gwVars, msgVars, taskVars, extraVars, received>>

LoopNext ==
    \/ \E u \in Users, c \in Channels : Connect(u, c, TRUE)
    \/ \E u \in Users : Disconnect(u)
    \/ \E s \in Users, target \in Users : LoopReceive(s, target)
    \/ \E s \in Users, i \in 1..MaxMessages : LoopSend(s, i)
    \/ \E s \in Users, i \in 1..MaxMessages, ok \in BOOLEAN :
          LoopWritten(s, i, ok)

LoopSpec == Init /\ [][LoopNext]_vars

C21_MembersConnected ==
    \A r \in DOMAIN rooms :
       \A u \in rooms[r] : is_user_online(Cur, u)



\* C22 as stated: when the object has no client or a cache command fails,
\* set_user_online, set_user_offline, get_user_status and get_online_users
\* do not raise, the writes change nothing in the cache, the queries answer
\* offline / empty, and the registry and the handlers are left alone.
C22_NoEscape ==
    [][(~redis_client[plast'.handle] \/ plast'.fail # NoFail) =>
          /\ ~plast'.raised
          /\ plast'.op \in {"set_user_online", "set_user_offline"} =>
                redis' = redis
          /\ plast'.op = "get_user_status" => plast'.status = "offline"
          /\ plast'.op = "get_online_users" => plast'.users = {}
          /\ UNCHANGED <<active_connections, rooms, user_rooms, handler>>]_vars

\* C22 amended: the four methods never raise. Without a client, or when the
\* first cache command fails, a write changes nothing; when the second
\* command (setex) fails the first one (sadd / srem on the online set) has
\* already been applied and stays, the status record being untouched. A
\* query without a client or with a failed command answers offline / empty.
\* The registry and the handlers are left alone.
C22_FailuresContained ==
    [][/\ ~plast'.raised
       /\ (plast'.op \in {"set_user_online", "set_user_offline",
                          "get_user_status", "get_online_users"}) =>
             UNCHANGED <<active_connections, rooms, user_rooms, handler>>
       /\ (~redis_client[plast'.handle] \/ plast'.fail # NoFail) =>
             /\ (plast'.op \in {"set_user_online", "set_user_offline"}
                    /\ (~redis_client[plast'.handle] \/ plast'.fail = 1)) =>
                   redis' = redis
             /\ \A u \in Users :
                   (plast'.user = u /\ redis_client[plast'.handle]
                       /\ plast'.fail = 2) =>
                      /\ plast'.op = "set_user_online" =>
                            redis' = sadd(redis, u)
                      /\ plast'.op = "set_user_offline" =>
                            redis' = srem(redis, u)
             /\ plast'.op = "get_user_status" => plast'.status = "offline"
             /\ plast'.op = "get_online_users" => plast'.users = {}]_vars

\* set_user_online was cut short by a failing setex: the user is in the
\* online set without a status record, and nothing was raised
C22_Witness ==
    /\ plast.op = "set_user_online"
    /\ redis_client[plast.handle]
    /\ plast.fail = 2
    /\ ~plast.raised
    /\ plast.user \in redis.online_users
    /\ get(redis, plast.user) = NoRecord


\* ---- handlers that own a connection ---------------------------------------
\* Each client connection is served by one handler coroutine: it registers
\* its WebSocket for its user (ConnectionManager.connect) and, when it
\* terminates, runs the cleanup of its finally block, which names the user
\* and not the WebSocket.
OwnConnect(u, c, ok) ==
    LET st == connect(Cur, c, u, ok)
    IN  /\ owner[c] = NoUser
        /\ \A p \in active_connections : p[2] # c
        /\ Becomes(st)
        /\ last' = Call("connect", u, 0, c, NoUser, Quiet(st))
        /\ owner' = [owner EXCEPT ![c] = u]
        /\ UNCHANGED <<presVars, gwVars, msgVars, taskVars, ordVars,
                       nonOwnVars>>

OwnFinally(c) ==
    LET user_id == owner[c]
        st == disconnect(Cur, user_id)
    IN  /\ user_id # NoUser
        /\ Becomes(st)
        /\ last' = Call("disconnect", user_id, 0, c, NoUser, Quiet(st))
        /\ owner' = [owner EXCEPT ![c] = NoUser]
        /\ UNCHANGED <<presVars, gwVars, msgVars, taskVars, ordVars,
                       nonOwnVars>>

OwnNext ==
    \/ \E u \in Users, c \in Channels, ok \in BOOLEAN : OwnConnect(u, c, ok)
    \/ \E c \in Channels : OwnFinally(c)
    \/ \E u \in Users, r \in Rooms : JoinRoom(u, r)
    \/ \E u \in Users, broken \in SUBSET Channels :
          SendPersonalMessage(u, broken)

OwnSpec == Init /\ [][OwnNext]_vars

\* C23: when the handler of a superseded WebSocket runs its cleanup, the
\* user stays registered with the WebSocket that superseded it.
C23_SuccessorSurvives ==
    [][\A c \in Channels :
          (/\ owner[c] # NoUser
           /\ owner'[c] = NoUser
           /\ DictHas(active_connections, owner[c])
           /\ DictGet(active_connections, owner[c]) # c)
          => (/\ DictHas(active_connections', owner[c])
              /\ DictGet(active_connections', owner[c])
                   = DictGet(active_connections, owner[c]))]_vars


\* ---- the ConnectionManager objects of the process -------------------------
\* The gateway registers connections in the object of its own module; a
\* route module that wants to notify a user asks the object of its module.
\* the methods class ConnectionManager defines
Methods ==
    {"connect", "disconnect", "join_room", "leave_room",
     "send_personal_message", "broadcast", "send_to_room", "handle_message",
     "get_room_users", "get_user_rooms", "is_user_online"}

\* the delivery methods the modules call on their ws_manager
Called == {"send_personal_message", "send_notification", "send_message"}

\* `ws_manager = ConnectionManager()` in a module: the object its code uses
object_of(module) ==
    module

visible(module, user_id) ==
    is_user_online(instance[object_of(module)], user_id)

RegConnect(u, c, ok) ==
    LET i == object_of(Gateway)
        st == connect(instance[i], c, u, ok)
    IN  /\ \A p \in instance[i].active_connections : p[2] = c => p[1] = u
        /\ instance' = [instance EXCEPT ![i] = [st EXCEPT !.raised = FALSE]]
        /\ notified' = [NoDelivery EXCEPT !.module = Gateway,
                                         !.method = "connect", !.user = u,
                                         !.raised = st.raised]
        /\ UNCHANGED <<baseVars, nonRegVars>>

RegDisconnect(u) ==
    LET i == object_of(Gateway)
        st == disconnect(instance[i], u)
    IN  /\ instance' = [instance EXCEPT ![i] = [st EXCEPT !.raised = FALSE]]
        /\ notified' = [NoDelivery EXCEPT !.module = Gateway,
                                         !.method = "disconnect",
                                         !.user = u, !.raised = st.raised]
        /\ UNCHANGED <<baseVars, nonRegVars>>

\* a module asks its object to deliver to user_id; an attribute the class
\* does not define raises AttributeError before anything is looked up
Notify(module, method, user_id, broken) ==
    LET i == object_of(module)
        o == send_personal_message(instance[i], user_id, broken)
    IN  /\ module # "websocket_manager.manager"
        /\ IF method \in Methods
           THEN /\ instance' = [instance EXCEPT ![i] = o.st]
                /\ notified' = [module |-> module, method |-> method,
                                user |-> user_id, raised |-> o.st.raised,
                                written |-> o.written]
           ELSE /\ instance' = instance
                /\ notified' = [module |-> module, method |-> method,
                                user |-> user_id, raised |-> TRUE,
                                written |-> {}]
        /\ UNCHANGED <<baseVars, nonRegVars>>

RegNext ==
    \/ \E u \in Users, c \in Channels, ok \in BOOLEAN : RegConnect(u, c, ok)
    \/ \E u \in Users : RegDisconnect(u)
    \/ \E module \in Instances, method \in Called, u \in Users :
          \E broken \in SUBSET {u} : Notify(module, method, u, broken)

RegSpec == Init /\ [][RegNext]_vars

\* C24: a user registered through the gateway is visible to every module
\* that delivers notifications.
C24_OneRegistry ==
    \A u \in Users :
       is_user_online(instance[Gateway], u)
          => \A module \in Instances : visible(module, u)


\* ---- presence calls, command by command -----------------------------------
\* set_user_online and set_user_offline each issue two cache commands, and
\* each command is awaited (asyncio.to_thread): between the two, other
\* coroutines run.
\* the commands of a call: 1 is the set command, 2 the status command
first_command(rs, op, user_id) ==
    IF op = "set_user_online" THEN sadd(rs, user_id) ELSE srem(rs, user_id)

second_command(rs, op, user_id) ==
    setex(rs, user_id, STATUS_EXPIRE,
          IF op = "set_user_online" THEN "online" ELSE "offline")

\* a coroutine enters set_user_online / set_user_offline on object h; with
\* no client the method returns at once
CallStart(k, h, op, u) ==
    /\ calls[k] = NoCall
    /\ calls' = IF redis_client[h]
                THEN [calls EXCEPT ![k] = [op |-> op, user_id |-> u, pc |-> 1]]
                ELSE calls
    /\ UNCHANGED <<redis, redis_client, marks, plast>>
    /\ UNCHANGED <<mgrVars, gwVars, msgVars, taskVars, ordVars, nonCcVars>>

\* await asyncio.to_thread(self._redis_client.sadd / srem, ...)
CallFirst(k) ==
    /\ calls[k].pc = 1
    /\ redis' = first_command(redis, calls[k].op, calls[k].user_id)
    /\ calls' = [calls EXCEPT ![k].pc = 2]
    /\ UNCHANGED <<redis_client, marks, plast>>
    /\ UNCHANGED <<mgrVars, gwVars, msgVars, taskVars, ordVars, nonCcVars>>

\* await asyncio.to_thread(self._redis_client.setex, ...), then the return
CallSecond(k) ==
    /\ calls[k].pc = 2
    /\ redis' = second_command(redis, calls[k].op, calls[k].user_id)
    /\ calls' = [calls EXCEPT ![k] = NoCall]
    /\ UNCHANGED <<redis_client, marks, plast>>
    /\ UNCHANGED <<mgrVars, gwVars, msgVars, taskVars, ordVars, nonCcVars>>

CcNext ==
    \/ \E k \in 1..MaxCalls, h \in Handles, u \in Users :
          \E op \in {"set_user_online", "set_user_offline"} :
             CallStart(k, h, op, u)
    \/ \E k \in 1..MaxCalls : CallFirst(k)
    \/ \E k \in 1..MaxCalls : CallSecond(k)

CcSpec == Init /\ [][CcNext]_vars

\* C25: once no set_user_online / set_user_offline call is in flight, a
\* user is in the online set exactly if the user's status record says
\* "online".
C25_HalvesAgree ==
    (\A k \in 1..MaxCalls : calls[k] = NoCall)
       => \A u \in Users :
             u \in smembers(redis) <=> get(redis, u).status = "online"


\* C26: a room_message from u for room r is forwarded only if u is a member
\* of r, and then only to the registered connections of the other members
\* of r; from a non-member nothing is written to anyone and nothing changes.
C26_MemberOnly ==
    [][(last'.op = "handle_message" /\ msg' = "room_message")
          => \A u \in Users, r \in Rooms \cup {0} :
                (last'.user = u /\ last'.room = r)
                   => IF r # 0 /\ u \in get_room_users(Cur, r)
                      THEN \A w \in last'.attempted :
                              /\ w[1] # u
                              /\ w[1] \in get_room_users(Cur, r)
                              /\ w \in active_connections
                      ELSE /\ last'.attempted = {}
                           /\ UNCHANGED <<active_connections, rooms,
                                          user_rooms>>]_vars

C26_Witness ==
    /\ last.op = "handle_message"
    /\ msg = "room_message"
    /\ last.room # 0
    /\ last.written # {}


\* ---- the store behind the routes ------------------------------------------
\* A table is the sequence of its rows; the key of a row is its position.
\* what a lookup answers for a key the table does not hold (None)
NoItem ==
    [caller_id |-> NoUser, receiver_id |-> NoUser, status |-> "none",
     started_at |-> PyNone]

get_item(table, item_id) ==
    IF item_id \in DOMAIN table THEN table[item_id] ELSE NoItem

create_item(table, item) == Append(table, item)

\* ---- video calls (routes/video_call.py) -----------------------------------
\* Every `await db. ...` is a point where the coroutine of a request is
\* suspended and the coroutines of other requests run.
Pair(a, b) == {a, b}

\* initiate_call: the query for an ACTIVE call between the two users
active_calls(table, user_id, receiver_id) ==
    {c \in DOMAIN table :
        /\ table[c].status = "ACTIVE"
        /\ \/ table[c].caller_id = user_id
              /\ table[c].receiver_id = receiver_id
           \/ table[c].caller_id = receiver_id
              /\ table[c].receiver_id = user_id}

new_call(user_id, receiver_id) ==
    [caller_id |-> user_id, receiver_id |-> receiver_id,
     status |-> "RINGING", started_at |-> PyNone]

\* the checks a route makes on the row it has read: the HTTP status it
\* answers with, 200 when it goes on to write
accept_call(call, user_id) ==
    IF call = NoItem THEN 404
    ELSE IF call.receiver_id # user_id THEN 403
    ELSE IF call.status # "RINGING" THEN 400
    ELSE 200

reject_call(call, user_id) ==
    IF call = NoItem THEN 404
    ELSE IF call.receiver_id # user_id THEN 403
    ELSE IF call.status # "RINGING" THEN 400
    ELSE 200

\* `import datetime` binds the module, which has no fromisoformat: the
\* duration of a call that was ACTIVE is an AttributeError (500)
end_call(call, user_id) ==
    IF call = NoItem THEN 404
    ELSE IF call.caller_id # user_id /\ call.receiver_id # user_id THEN 403
    ELSE IF call.status \notin {"ACTIVE", "RINGING"} THEN 400
    ELSE IF call.status = "ACTIVE" /\ call.started_at # PyNone THEN 500
    ELSE 200

checked(op, call, user_id) ==
    CASE op = "accept_call" -> accept_call(call, user_id)
      [] op = "reject_call" -> reject_call(call, user_id)
      [] op = "end_call" -> end_call(call, user_id)

\* updated_data of the route
updated_data(op, call) ==
    CASE op = "accept_call" ->
            [call EXCEPT !.status = "ACTIVE", !.started_at = "current_time"]
      [] op = "reject_call" -> [call EXCEPT !.status = "REJECTED"]
      [] op = "end_call" -> [call EXCEPT !.status = "ENDED"]

update_item(table, item_id, op) ==
    [table EXCEPT ![item_id] = updated_data(op, @)]


\* initiate_call up to the query for an ACTIVE call of the pair; online is
\* what the presence lookup for the receiver answers
InitiateCheck(k, u, receiver_id, online) ==
    /\ reqs[k] = NoReq
    /\ reqs' = IF online /\ active_calls(video_calls, u, receiver_id) = {}
               THEN [reqs EXCEPT ![k] = [op |-> "initiate_call", user |-> u,
                                         call_id |-> receiver_id,
                                         pc |-> "create"]]
               ELSE reqs
    /\ UNCHANGED <<video_calls, moved>>
    /\ UNCHANGED <<baseVars, nonCallVars>>

\* await db.create_item("video_calls", new_call)
InitiateCreate(k) ==
    /\ reqs[k].op = "initiate_call"
    /\ reqs[k].pc = "create"
    /\ Len(video_calls) < MaxRecords
    /\ video_calls' = create_item(video_calls,
                                  new_call(reqs[k].user, reqs[k].call_id))
    /\ reqs' = [reqs EXCEPT ![k] = NoReq]
    /\ moved' = [op |-> "initiate_call", user |-> reqs[k].user,
                 call_id |-> Len(video_calls) + 1, was |-> "none"]
    /\ UNCHANGED <<baseVars, nonCallVars>>

\* accept_call, reject_call, end_call up to the write: the row is read and
\* checked, and a request that fails a check is answered at once
RouteRead(k, op, u, call_id) ==
    /\ reqs[k] = NoReq
    /\ reqs' = IF checked(op, get_item(video_calls, call_id), u) = 200
               THEN [reqs EXCEPT ![k] = [op |-> op, user |-> u,
                                         call_id |-> call_id,
                                         pc |-> "update"]]
               ELSE reqs
    /\ UNCHANGED <<video_calls, moved>>
    /\ UNCHANGED <<baseVars, nonCallVars>>

\* await db.update_item("video_calls", call_id, updated_data)
RouteUpdate(k) ==
    /\ reqs[k].pc = "update"
    /\ video_calls' = update_item(video_calls, reqs[k].call_id, reqs[k].op)
    /\ moved' = [op |-> reqs[k].op, user |-> reqs[k].user,
                 call_id |-> reqs[k].call_id,
                 was |-> video_calls[reqs[k].call_id].status]
    /\ reqs' = [reqs EXCEPT ![k] = NoReq]
    /\ UNCHANGED <<baseVars, nonCallVars>>

CallNext ==
    \/ \E k \in 1..MaxRequests, u \in Users, receiver_id \in Users :
          \E online \in BOOLEAN : InitiateCheck(k, u, receiver_id, online)
    \/ \E k \in 1..MaxRequests : InitiateCreate(k)
    \/ \E k \in 1..MaxRequests, u \in Users, call_id \in 1..MaxRecords :
          \E op \in {"accept_call", "reject_call", "end_call"} :
             RouteRead(k, op, u, call_id)
    \/ \E k \in 1..MaxRequests : RouteUpdate(k)

CallSpec == Init /\ [][CallNext]_vars

NoFriendship == [user_id |-> NoUser, friend_id |-> NoUser, status |-> "none"]

get_friendship(table, friendship_id) ==
    IF friendship_id \in DOMAIN table THEN table[friendship_id]
    ELSE NoFriendship

delete_item(table, item_id) == [table EXCEPT ![item_id] = NoFriendship]

\* a scan answers the matching rows in the order of the table
query_items(table, user_id, friend_id) ==
    {i \in DOMAIN table :
        table[i].user_id = user_id /\ table[i].friend_id = friend_id}

First(found) == CHOOSE i \in found : \A j \in found : i <= j

\* the rows send_friend_request looks at: those from the sender to the
\* friend and, only when there is none, those from the friend to the sender
existing_friendships(table, user_id, friend_id) ==
    IF query_items(table, user_id, friend_id) # {}
    THEN query_items(table, user_id, friend_id)
    ELSE query_items(table, friend_id, user_id)

\* the HTTP status send_friend_request answers with, 200 when it creates
\* the row
send_friend_request(table, user_id, friend_id) ==
    LET found == existing_friendships(table, user_id, friend_id)
    IN  IF found # {} /\ table[First(found)].status \in {"ACCEPTED", "PENDING"}
        THEN 400
        ELSE 200

new_friendship(user_id, friend_id) ==
    [user_id |-> user_id, friend_id |-> friend_id, status |-> "PENDING"]

accept_friend_request(friendship, user_id) ==
    IF friendship = NoFriendship THEN 404
    ELSE IF friendship.friend_id # user_id THEN 403
    ELSE IF friendship.status # "PENDING" THEN 400
    ELSE 200

reject_friend_request(friendship, user_id) ==
    IF friendship = NoFriendship THEN 404
    ELSE IF friendship.friend_id # user_id THEN 403
    ELSE IF friendship.status # "PENDING" THEN 400
    ELSE 200

remove_friend(friendship, user_id) ==
    IF friendship = NoFriendship THEN 404
    ELSE IF friendship.user_id # user_id /\ friendship.friend_id # user_id
    THEN 403
    ELSE 200

SendFriendRequest(u, friend_id) ==
    LET code == send_friend_request(friends, u, friend_id)
    IN  /\ code = 200 => Len(friends) < MaxFriendships
        /\ friends' = IF code = 200
                      THEN create_item(friends, new_friendship(u, friend_id))
                      ELSE friends
        /\ flast' = FRequest("send_friend_request", u, friend_id,
                             IF code = 200 THEN Len(friends) + 1 ELSE 0, code)
        /\ UNCHANGED <<baseVars, nonFriendVars>>

AcceptFriendRequest(u, friendship_id) ==
    LET code == accept_friend_request(get_friendship(friends, friendship_id),
                                      u)
    IN  /\ friends' = IF code = 200
                      THEN [friends EXCEPT
                               ![friendship_id].status = "ACCEPTED"]
                      ELSE friends
        /\ flast' = FRequest("accept_friend_request", u, NoUser,
                             friendship_id, code)
        /\ UNCHANGED <<baseVars, nonFriendVars>>

RejectFriendRequest(u, friendship_id) ==
    LET code == reject_friend_request(get_friendship(friends, friendship_id),
                                      u)
    IN  /\ friends' = IF code = 200
                      THEN [friends EXCEPT
                               ![friendship_id].status = "REJECTED"]
                      ELSE friends
        /\ flast' = FRequest("reject_friend_request", u, NoUser,
                             friendship_id, code)
        /\ UNCHANGED <<baseVars, nonFriendVars>>

RemoveFriend(u, friendship_id) ==
    LET code == remove_friend(get_friendship(friends, friendship_id), u)
    IN  /\ friends' = IF code = 200 THEN delete_item(friends, friendship_id)
                      ELSE friends
        /\ flast' = FRequest("remove_friend", u, NoUser, friendship_id, code)
        /\ UNCHANGED <<baseVars, nonFriendVars>>

FriendNext ==
    \/ \E u \in Users, friend_id \in Users : SendFriendRequest(u, friend_id)
    \/ \E u \in Users, id \in 1..MaxFriendships : AcceptFriendRequest(u, id)
    \/ \E u \in Users, id \in 1..MaxFriendships : RejectFriendRequest(u, id)
    \/ \E u \in Users, id \in 1..MaxFriendships : RemoveFriend(u, id)

FriendSpec == Init /\ [][FriendNext]_vars

\* the friendships of a pair that are PENDING or ACCEPTED
Live(table, a, b) ==
    {i \in DOMAIN table :
        /\ table[i].status \in {"PENDING", "ACCEPTED"}
        /\ Pair(table[i].user_id, table[i].friend_id) = Pair(a, b)}

Locations == {PyNone, "global", "kr"}

\* the list commands
lpush(list, value) == <<value>> \o list
llen(list) == Len(list)
lindex(list, index) ==
    IF index + 1 \in DOMAIN list THEN list[index + 1] ELSE NoEntry
\* lrem key 1 value: the first element equal to value is removed
lrem(list, value) ==
    LET at == {j \in DOMAIN list : list[j] = value}
    IN  IF at = {} THEN list
        ELSE LET j == CHOOSE x \in at : \A y \in at : x <= y
             IN  SubSeq(list, 1, j - 1) \o SubSeq(list, j + 1, Len(list))

\* the gender clause changes nothing: only the locations decide
check_call_compatibility(pref1, pref2) ==
    ~(pref1 # pref2 /\ pref1 # "global" /\ pref2 # "global")

\* add_to_random_call_queue: one lpush of the entry, which carries the time
\* of the call
AddToRandomCallQueue(u, preferences) ==
    /\ pushed < MaxEntries
    /\ pushed' = pushed + 1
    /\ queue' = lpush(queue, [entry |-> pushed + 1, user_id |-> u,
                              preferences |-> preferences])
    /\ UNCHANGED <<finders, handed, matched>>
    /\ UNCHANGED <<baseVars, nonQueueVars>>

\* the loop of find_random_call_match from `for i in range(queue_length)`
\* to its next await or to its return None: f is the call after the lindex
\* at f.i has been answered with f.queue_item
examine(f) ==
    IF /\ f.queue_item # NoEntry
       /\ f.queue_item.user_id # f.user_id
       /\ check_call_compatibility(f.preferences, f.queue_item.preferences)
    THEN [f EXCEPT !.pc = "lrem"]
    ELSE IF f.i + 1 < f.queue_length
    THEN [f EXCEPT !.pc = "lindex", !.i = f.i + 1, !.queue_item = NoEntry]
    ELSE NoFinder

\* find_random_call_match up to the answer of llen
FindStart(k, u, preferences) ==
    /\ finders[k] = NoFinder
    /\ finders' = IF llen(queue) = 0 THEN finders
                  ELSE [finders EXCEPT ![k] =
                           [user_id |-> u, preferences |-> preferences,
                            pc |-> "lindex", queue_length |-> llen(queue),
                            i |-> 0, queue_item |-> NoEntry]]
    /\ UNCHANGED <<queue, handed, matched, pushed>>
    /\ UNCHANGED <<baseVars, nonQueueVars>>

\* await asyncio.to_thread(self._redis_client.lindex, ..., i) and what
\* follows it without another await
FindIndex(k) ==
    /\ finders[k].pc = "lindex"
    /\ finders' = [finders EXCEPT ![k] =
                      examine([finders[k] EXCEPT
                                  !.queue_item = lindex(queue, finders[k].i)])]
    /\ UNCHANGED <<queue, handed, matched, pushed>>
    /\ UNCHANGED <<baseVars, nonQueueVars>>

\* await asyncio.to_thread(self._redis_client.lrem, ..., 1, queue_item);
\* return user_data
FindRemove(k) ==
    LET user_data == finders[k].queue_item
    IN  /\ finders[k].pc = "lrem"
        /\ queue' = lrem(queue, user_data)
        /\ handed' = [handed EXCEPT ![user_data.entry] = @ + 1]
        /\ matched' = [caller |-> finders[k].user_id,
                     user_id |-> user_data.user_id,
                     entry |-> user_data.entry]
        /\ finders' = [finders EXCEPT ![k] = NoFinder]
        /\ UNCHANGED pushed
        /\ UNCHANGED <<baseVars, nonQueueVars>>

QueueNext ==
    \/ \E u \in Users, preferences \in Locations :
          AddToRandomCallQueue(u, preferences)
    \/ \E k \in 1..MaxRequests, u \in Users, preferences \in Locations :
          FindStart(k, u, preferences)
    \/ \E k \in 1..MaxRequests : FindIndex(k)
    \/ \E k \in 1..MaxRequests : FindRemove(k)

QueueSpec == Init /\ [][QueueNext]_vars

\* C30: an entry of the queue is returned as a match to at most one
\* find_random_call_match call, the returned entry is no longer in the
\* queue, and it is not an entry of the caller.
C30_HandedOnce ==
    [][\A k \in 1..MaxRequests :
          (finders[k].pc = "lrem" /\ finders'[k] = NoFinder)
             => /\ handed'[finders[k].queue_item.entry] <= 1
                /\ \A j \in DOMAIN queue' :
                      queue'[j] # finders[k].queue_item
                /\ finders[k].queue_item.user_id # finders[k].user_id]_vars

====
